---- MODULE Spec2Model ----
(***************************************************************************)
(* Model of the channel coordinator of laravel-echo-server                 *)
(* (src/src/channels/channel.ts, class Channel).                           *)
(*                                                                         *)
(* The process is single threaded: every handler and every callback runs   *)
(* to its end without interruption, and the callbacks of pending I/O (a    *)
(* store read, a live-set query, an authorization request, a webhook       *)
(* call) run later in any order.  Each action below is one such handler or *)
(* callback.  db.set is fire and forget and the store is taken to apply    *)
(* commands in the order they are issued, so a write is visible to every   *)
(* read issued after it; a read is answered with the value the store holds *)
(* at some moment between its issue and its callback (DbReply).            *)
(***************************************************************************)
EXTENDS Naturals, Sequences, FiniteSets, Bags, TLC

\* ------------------------------------------------------------- bounds
\* Most requests (join, leave, client event) the clients send in one run.
MaxOps == 3
\* Most faults the environment injects (a failing store read, live-set query
\* or webhook call).
MaxFaults == 1

\* -------------------------------------------------------------- inputs
Sockets == {"A", "B"}

\* Channel names the clients use: a plain public channel and two public
\* channels whose names encode a user identifier ...
PublicChannels == {"chat", "user.7", "user.9"}

\* ... and a private and a presence channel.
PrivateChannels == {"private-a", "presence-r"}

Channels == PublicChannels \cup PrivateChannels

\* socket.userId before any join set it; also a missing property.
Undefined == "undefined"

Digits == {"0", "1", "2", "3", "4", "5", "6", "7", "8", "9"}

\* Most fragments a channel name handed to the classifiers is made of.
MaxFragments == 3

\* ------------------------------------------------------ pure functions
\* String.prototype.indexOf(p) >= 0; also what an unanchored RegExp built
\* from a literal does.
Contains(s, p) ==
    \E i \in 1..(Len(s) + 1) :
        /\ i + Len(p) - 1 <= Len(s)
        /\ SubSeq(s, i, i + Len(p) - 1) = p

\* pattern.replace('\*', '.*') turns the first star of a pattern into ".*";
\* the default patterns are a literal followed by one star, and the RegExp is
\* not anchored, so regex.test(name) is a search for the literal anywhere in
\* the name (".*" also matches the empty rest).
GlobLiteral(pattern) ==
    IF Len(pattern) > 0 /\ SubSeq(pattern, Len(pattern), Len(pattern)) = "*"
    THEN SubSeq(pattern, 1, Len(pattern) - 1)
    ELSE pattern

RegexTest(pattern, name) == Contains(name, GlobLiteral(pattern))

privateChannels == {"private-*", "presence-*"}

clientEvents == {"client-*"}

isPrivate(channel) == \E p \in privateChannels : RegexTest(p, channel)

isClientEvent(event) == \E p \in clientEvents : RegexTest(p, event)

\* channel.lastIndexOf('presence-', 0) === 0: a prefix test.
isPresence(channel) ==
    /\ Len(channel) >= 9
    /\ SubSeq(channel, 1, 9) = "presence-"

\* The longest run of digits that starts at position i of s.
RECURSIVE DigitRun(_, _)
DigitRun(s, i) ==
    IF i <= Len(s) /\ SubSeq(s, i, i) \in Digits
    THEN SubSeq(s, i, i) \o DigitRun(s, i + 1)
    ELSE ""

\* channel.match(/user.(\d*)/): the leftmost "user" followed by any one
\* character; group 1 is the digit run after it ("" when there is none).
\* NoMatch stands for a null match.
NoMatch == "null"

UserMatch(channel) ==
    LET hits == {i \in 1..Len(channel) :
                    /\ i + 4 <= Len(channel)
                    /\ SubSeq(channel, i, i + 3) = "user"}
    IN IF hits = {} THEN NoMatch
       ELSE LET i == CHOOSE j \in hits : \A k \in hits : j <= k
            IN DigitRun(channel, i + 5)

\* onJoin: socket.userId after joining channel (match && match[1]).
onJoin(uid, channel) ==
    LET m == UserMatch(channel)
    IN IF m # NoMatch /\ m # "" THEN m ELSE uid

\* A stored value or null: <<>> is null, <<v>> is the value v.
Null == <<>>

Some(v) == <<v>>

\* members || []
OrEmpty(opt) == IF opt = Null THEN <<>> ELSE opt[1]

\* removeInactive: list.filter(m => clients.indexOf(m.socketId) >= 0 &&
\* m.userId != member.userId): the entries whose socket is among the room's
\* clients and whose userId is not the joining member's.
RECURSIVE activeOthers(_, _, _)
activeOthers(list, clients, member) ==
    IF list = <<>> THEN <<>>
    ELSE (IF /\ Head(list).socketId \in clients
             /\ Head(list).userId # member.userId
          THEN <<Head(list)>> ELSE <<>>)
             \o activeOthers(Tail(list), clients, member)

\* A reconciliation that prunes only by liveness.
removeInactiveLiveOnly(clients, members, member) ==
    SelectSeq(OrEmpty(members), LAMBDA m : m.socketId \in clients)

removeInactive(clients, members, member) ==
    activeOthers(OrEmpty(members), clients, member)

\* leave: members.filter((m) => m.socketId != socket.id)
RECURSIVE notSocket(_, _)
notSocket(list, sid) ==
    IF list = <<>> THEN <<>>
    ELSE (IF Head(list).socketId # sid THEN <<Head(list)>> ELSE <<>>)
             \o notSocket(Tail(list), sid)

\* A leave that keeps the snapshot as it is.
withoutSocketKept(members, sid) == OrEmpty(members)

withoutSocket(members, sid) == notSocket(OrEmpty(members), sid)

membersKey(channel) == channel \o ":members"

countKey(channel) == channel \o ":members-count"

Keys == {membersKey(c) : c \in Channels} \cup {countKey(c) : c \in Channels}

\* ---------------------------------------------- the backend's answers
\* What the authenticator may answer a join with: a grant whose channel_data
\* is a JSON text or some other text, or a denial with a reason and a status.
ChannelData == {"{\"userId\":\"7\"}", "Ann"}

Denials == {[reason |-> "Forbidden", status |-> 403],
            [reason |-> "Unauthorized", status |-> 401]}

\* JSON.parse(res.channel_data) inside try/catch: the decoded member, or the
\* raw text when it does not decode (a text has no userId property).
parseChannelData(cd) ==
    IF cd = "{\"userId\":\"7\"}" THEN [userId |-> "7"]
    ELSE [userId |-> Undefined]

\* What a webhook call may end with.
HookOutcomes == {"error", "non200", "ok"}

\* ------------------------------------------------- client event payloads
\* A JavaScript value as clientEvent sees it: its type and, for an object,
\* its event and channel properties ("" when the property is missing).
JsObject(event, channel) == [type |-> "object", event |-> event, channel |-> channel]

JsNull == [type |-> "null", event |-> "", channel |-> ""]

JsString == [type |-> "string", event |-> "", channel |-> ""]

Events == {"client-typing", "typing"}

\* A raw payload: the JSON text of a value (form "json"), a text that is no
\* JSON (form "text"; value is what the text encodes for nobody), or an
\* object handed over as it is (form "object").
Payloads ==
    {[form |-> "json", value |-> JsObject(e, c)] : e \in Events, c \in PrivateChannels}
        \cup {[form |-> "object", value |-> JsObject("client-typing", c)] :
                 c \in PrivateChannels}
        \cup {[form |-> "json", value |-> JsObject("client-typing", "")],
              [form |-> "json", value |-> JsNull],
              [form |-> "text", value |-> JsObject("client-typing", "private-a")]}

\* try { data = JSON.parse(data) } catch (e) { data = data }: a JSON text
\* becomes its value; anything else makes JSON.parse throw and stays what it
\* is, a string or the object.
decode(raw) ==
    IF raw.form = "json" THEN raw.value
    ELSE IF raw.form = "object" THEN raw.value
    ELSE JsString

\* --------------------------------------------------------------- state
VARIABLES
    userId,     \* socket.userId of every connection
    rooms,      \* transport registry: the connections registered in each room
    db,         \* key-value store: key -> Null or Some(value)
    tasks,      \* bag of asynchronous tasks waiting for a callback
    log,        \* what Log.error was called with, in order
    thrown,     \* exceptions that escaped a handler or a callback
    emitted,    \* events emitted to single connections, in order
    broadcasts, \* client events rebroadcast to a room, in order
    hooks,      \* webhook notifications dispatched, in order
    joined,     \* history: the (connection, channel) pairs a join was requested for
    granted,    \* history: the (connection, channel) pairs the authenticator granted
    options,    \* configuration: hookEndpoint, devMode
    probe,      \* a channel name handed to the classifiers, and their verdicts
    last,       \* history: the last request handled for each (connection, channel)
    pending,    \* the store's pipeline: the set commands issued and not yet applied
    faults,     \* number of faults injected so far
    ops         \* number of requests received so far

vars == <<userId, rooms, db, tasks, log, thrown, emitted, broadcasts, hooks,
          joined, granted, options, probe, last, pending, faults, ops>>

Task(kind, s, c) ==
    [kind |-> kind, socket |-> s, channel |-> c, pc |-> "get",
     err |-> FALSE, members |-> Null, userId |-> Undefined]

Pending == BagToSet(tasks)

Request == ops < MaxOps /\ ops' = ops + 1

Member(uid, sid) == [userId |-> uid, socketId |-> sid]

SetCommand(key, value) == [key |-> key, value |-> value]

\* No name classified yet.
NoProbe == [channel |-> "", private |-> FALSE, presence |-> FALSE, done |-> FALSE]

Pairs == Sockets \X Channels

\* this.db.set(channel + ":members", members);
\* this.db.set(channel + ":members-count", members.length);
\* Two commands, issued in this order.  With an explicit pipeline they join
\* the pending commands; otherwise they take effect as they are issued.
dbSet(channel, members) ==
    IF pending.explicit
    THEN /\ pending' = [pending EXCEPT !.sets =
                            @ \o <<SetCommand(membersKey(channel), members),
                                    SetCommand(countKey(channel), Len(members))>>]
         /\ UNCHANGED db
    ELSE /\ db' = [db EXCEPT ![membersKey(channel)] = Some(members),
                              ![countKey(channel)] = Some(Len(members))]
         /\ UNCHANGED pending

\* A handler or callback that issues no store command.
dbUntouched == UNCHANGED <<db, pending>>

LogEntry(op, s, c, error) == [op |-> op, socket |-> s, channel |-> c, error |-> error]

InitBase(opts) ==
    /\ userId = [s \in Sockets |-> Undefined]
    /\ rooms = [c \in Channels |-> {}]
    /\ db = [k \in Keys |-> Null]
    /\ tasks = EmptyBag
    /\ log = <<>>
    /\ thrown = <<>>
    /\ emitted = <<>>
    /\ broadcasts = <<>>
    /\ hooks = <<>>
    /\ joined = {}
    /\ granted = {}
    /\ options = opts
    /\ last = [p \in Pairs |-> "none"]
    /\ faults = 0
    /\ ops = 0

\* No name under classification, store commands taking effect as issued.
InitWith(opts) ==
    /\ InitBase(opts)
    /\ probe = NoProbe
    /\ pending = [explicit |-> FALSE, sets |-> <<>>]

\* The state after construction, no webhook endpoint configured.
Init == InitWith([hookEndpoint |-> FALSE, devMode |-> FALSE])

\* ----------------------------------------------------------------- join
\* A joinPrivate that registers the connection before the answer.
joinPrivateEager(s, c) ==
    /\ tasks' = tasks (+) SetToBag({[Task("auth", s, c) EXCEPT !.pc = "auth"]})
    /\ rooms' = [rooms EXCEPT ![c] = @ \cup {s}]
    /\ UNCHANGED userId

\* joinPrivate(socket, data): the call of private.authenticate.
joinPrivate(s, c) ==
    /\ tasks' = tasks (+) SetToBag({[Task("auth", s, c) EXCEPT !.pc = "auth"]})
    /\ UNCHANGED <<userId, rooms>>

\* A join that reads the member list whether or not the socket has a userId.
joinAlwaysReads(s, c) ==
    /\ Request
    /\ c # ""
    /\ joined' = joined \cup {<<s, c>>}
    /\ last' = [last EXCEPT ![<<s, c>>] = "join"]
    /\ IF isPrivate(c)
       THEN joinPrivate(s, c)
       ELSE /\ userId' = [userId EXCEPT ![s] = onJoin(@, c)]
            /\ rooms' = [rooms EXCEPT ![c] = @ \cup {s}]
            /\ tasks' = tasks (+) SetToBag({Task("join", s, c)})
    /\ UNCHANGED <<db, log, thrown, emitted, broadcasts, hooks, granted,
                   options, probe, pending, faults>>

\* join(socket, data).  A private-style channel goes to joinPrivate; any other
\* channel: onJoin, socket.join, and with a userId the read of the member list.
join(s, c) ==
    /\ Request
    /\ c # ""
    /\ joined' = joined \cup {<<s, c>>}
    /\ last' = [last EXCEPT ![<<s, c>>] = "join"]
    /\ IF isPrivate(c)
       THEN joinPrivate(s, c)
       ELSE /\ userId' = [userId EXCEPT ![s] = onJoin(@, c)]
            /\ rooms' = [rooms EXCEPT ![c] = @ \cup {s}]
            /\ IF userId'[s] # Undefined
               THEN tasks' = tasks (+) SetToBag({Task("join", s, c)})
               ELSE UNCHANGED tasks
    /\ UNCHANGED <<db, log, thrown, emitted, broadcasts, hooks, granted,
                   options, probe, pending, faults>>

\* The store answers a pending get: with the value it holds now, or with an
\* error.
DbReply(t) ==
    /\ t.pc = "get"
    /\ pending.sets = <<>>
    /\ \/ /\ tasks' = (tasks (-) SetToBag({t})) (+)
                SetToBag({[t EXCEPT !.pc = "reply",
                                    !.members = db[membersKey(t.channel)]]})
          /\ UNCHANGED faults
       \/ /\ faults < MaxFaults
          /\ faults' = faults + 1
          /\ tasks' = (tasks (-) SetToBag({t})) (+)
                SetToBag({[t EXCEPT !.pc = "reply", !.err = TRUE]})
    /\ UNCHANGED <<userId, rooms, db, log, thrown, emitted, broadcasts, hooks,
                   joined, granted, options, probe, last, pending, ops>>

\* A join whose rejection handler swallows the error.
joinGotMembersSilent(t) ==
    /\ t.kind = "join"
    /\ t.pc = "reply"
    /\ IF t.err
       THEN tasks' = tasks (-) SetToBag({t})
       ELSE tasks' = (tasks (-) SetToBag({t})) (+)
                SetToBag({[t EXCEPT !.pc = "clients",
                                    !.userId = userId[t.socket]]})
    /\ UNCHANGED <<userId, rooms, db, log, thrown, emitted, broadcasts, hooks,
                   joined, granted, options, probe, last, pending, faults, ops>>

\* join, the callbacks of getMembers(...).then: on success build the member
\* from the socket as it is now and ask the registry for the room's clients;
\* on failure Log.error.
joinGotMembers(t) ==
    /\ t.kind = "join"
    /\ t.pc = "reply"
    /\ IF t.err
       THEN /\ log' = Append(log, LogEntry("join", t.socket, t.channel, "store"))
            /\ tasks' = tasks (-) SetToBag({t})
       ELSE /\ tasks' = (tasks (-) SetToBag({t})) (+)
                  SetToBag({[t EXCEPT !.pc = "clients",
                                      !.userId = userId[t.socket]]})
            /\ UNCHANGED log
    /\ UNCHANGED <<userId, rooms, db, thrown, emitted, broadcasts, hooks,
                   joined, granted, options, probe, last, pending, faults, ops>>

\* removeInactive's clients callback and the then that follows it in the same
\* turn: filter, push the member, write the list and its length.  When the
\* registry reports an error, clients is undefined: filtering an empty list
\* never touches it, filtering any entry throws.
joinGotClients(t) ==
    /\ t.kind = "join"
    /\ t.pc = "clients"
    /\ LET member == Member(t.userId, t.socket)
       IN \/ /\ dbSet(t.channel,
                      Append(removeInactive(rooms[t.channel], t.members, member),
                             member))
             /\ UNCHANGED <<thrown, faults>>
          \/ /\ faults < MaxFaults
             /\ faults' = faults + 1
             /\ IF OrEmpty(t.members) = <<>>
                THEN dbSet(t.channel, <<member>>) /\ UNCHANGED thrown
                ELSE /\ thrown' = Append(thrown, "TypeError")
                     /\ dbUntouched
    /\ tasks' = tasks (-) SetToBag({t})
    /\ UNCHANGED <<userId, rooms, log, emitted, broadcasts, hooks, joined,
                   granted, options, probe, last, ops>>

\* ---------------------------------------------------------------- leave
\* sendHook(socket, channel, event): the post of the notification.
hookTask(s, c) == [Task("hook", s, c) EXCEPT !.pc = "post"]

Notification(s, c, event, uid) ==
    [event |-> event, socket |-> s, channel |-> c, userId |-> uid]

\* leave(socket, channel, reason): presence.leave for a presence channel,
\* otherwise the read of the member list; then socket.leave and, with a
\* webhook endpoint, sendHook.
leave(s, c) ==
    /\ Request
    /\ c # ""
    /\ LET reader == Task(IF isPresence(c) THEN "presenceLeave" ELSE "leave", s, c)
       IN IF options.hookEndpoint
          THEN /\ tasks' = (tasks (+) SetToBag({reader})) (+) SetToBag({hookTask(s, c)})
               /\ hooks' = Append(hooks, Notification(s, c, "leave", userId[s]))
          ELSE /\ tasks' = tasks (+) SetToBag({reader})
               /\ UNCHANGED hooks
    /\ rooms' = [rooms EXCEPT ![c] = @ \ {s}]
    /\ last' = [last EXCEPT ![<<s, c>>] = "leave"]
    /\ UNCHANGED <<userId, db, log, thrown, emitted, broadcasts, joined,
                   granted, options, probe, pending, faults>>

\* leave, the callbacks of getMembers(...).then.
leaveGotMembers(t) ==
    /\ t.kind = "leave"
    /\ t.pc = "reply"
    /\ IF t.err
       THEN /\ log' = Append(log, LogEntry("leave", t.socket, t.channel, "store"))
            /\ dbUntouched
       ELSE /\ dbSet(t.channel, withoutSocket(t.members, t.socket))
            /\ UNCHANGED log
    /\ tasks' = tasks (-) SetToBag({t})
    /\ UNCHANGED <<userId, rooms, thrown, emitted, broadcasts, hooks, joined,
                   granted, options, probe, last, faults, ops>>

\* A webhook callback that posts the notification again after a transport
\* error.
hookDoneRetries(t, outcome) ==
    /\ t.kind = "hook"
    /\ t.pc = "post"
    /\ IF outcome = "error"
       THEN /\ faults < MaxFaults
            /\ faults' = faults + 1
            /\ hooks' = Append(hooks, Notification(t.socket, t.channel, "leave",
                                                   userId[t.socket]))
            /\ UNCHANGED tasks
       ELSE /\ tasks' = tasks (-) SetToBag({t})
            /\ UNCHANGED <<hooks, faults>>
    /\ UNCHANGED <<userId, rooms, db, log, thrown, emitted, broadcasts,
                   joined, granted, options, probe, last, pending, ops>>

\* sendHook, the callback of request.post: a transport error is logged (in
\* devMode after a message that is logged as an error too); the body of an
\* answer with a status other than 200 is logged in devMode only; a success
\* logs no error.
hookDone(t, outcome) ==
    /\ t.kind = "hook"
    /\ t.pc = "post"
    /\ IF outcome = "error"
       THEN /\ faults < MaxFaults
            /\ faults' = faults + 1
            /\ log' = Append(IF options.devMode
                             THEN Append(log, LogEntry("hook", t.socket, t.channel,
                                                       "message"))
                             ELSE log,
                             LogEntry("hook", t.socket, t.channel, "transport"))
       ELSE /\ IF outcome = "non200" /\ options.devMode
               THEN log' = Append(log, LogEntry("hook", t.socket, t.channel, "status"))
               ELSE UNCHANGED log
            /\ UNCHANGED faults
    /\ tasks' = tasks (-) SetToBag({t})
    /\ UNCHANGED <<userId, rooms, db, thrown, emitted, broadcasts, hooks,
                   joined, granted, options, probe, last, pending, ops>>

\* ------------------------------------------------------ private channels
\* presence.join(socket, channel, member) of PresenceChannel: the read of the
\* snapshot that starts the reconciliation for the granted member.
presenceJoin(s, c, member) == [Task("presenceJoin", s, c) EXCEPT !.userId = member.userId]

\* joinPrivate, the callback of a grant: socket.join, for a presence channel
\* the decoded channel_data goes to presence.join, then onJoin.
joinPrivateGranted(t, cd) ==
    /\ t.kind = "auth"
    /\ t.pc = "auth"
    /\ rooms' = [rooms EXCEPT ![t.channel] = @ \cup {t.socket}]
    /\ IF isPresence(t.channel)
       THEN tasks' = (tasks (-) SetToBag({t})) (+)
                SetToBag({presenceJoin(t.socket, t.channel, parseChannelData(cd))})
       ELSE tasks' = tasks (-) SetToBag({t})
    /\ userId' = [userId EXCEPT ![t.socket] = onJoin(@, t.channel)]
    /\ granted' = granted \cup {<<t.socket, t.channel>>}
    /\ UNCHANGED <<db, log, thrown, emitted, broadcasts, hooks, joined,
                   options, probe, last, pending, faults, ops>>

\* A subscription_error emitted to the channel's room.
subscriptionErrorToRoom(s, c, error) ==
    [to |-> c, event |-> "subscription_error",
     args |-> [channel |-> c, status |-> error.status]]

\* this.io.sockets.to(socket.id).emit('subscription_error', data.channel, error.status)
subscriptionError(s, c, error) ==
    [to |-> s, event |-> "subscription_error",
     args |-> [channel |-> c, status |-> error.status]]

\* A denial callback that registers the connection all the same.
joinPrivateDeniedRegisters(t, error) ==
    /\ t.kind = "auth"
    /\ t.pc = "auth"
    /\ rooms' = [rooms EXCEPT ![t.channel] = @ \cup {t.socket}]
    /\ emitted' = Append(emitted, subscriptionError(t.socket, t.channel, error))
    /\ tasks' = tasks (-) SetToBag({t})
    /\ UNCHANGED <<userId, db, log, thrown, broadcasts, hooks, joined,
                   granted, options, probe, last, pending, faults, ops>>

\* joinPrivate, the callback of a denial: Log.error(error.reason) in devMode,
\* and the subscription_error event to the requester.
joinPrivateDenied(t, error) ==
    /\ t.kind = "auth"
    /\ t.pc = "auth"
    /\ IF options.devMode
       THEN log' = Append(log, LogEntry("auth", t.socket, t.channel, error.reason))
       ELSE UNCHANGED log
    /\ emitted' = Append(emitted, subscriptionError(t.socket, t.channel, error))
    /\ tasks' = tasks (-) SetToBag({t})
    /\ UNCHANGED <<userId, rooms, db, thrown, broadcasts, hooks, joined,
                   granted, options, probe, last, pending, faults, ops>>

\* PresenceChannel.join after its read: a failed read rejects the operation;
\* otherwise the registry is asked for the room's clients.
presenceJoinGotMembers(t) ==
    /\ t.kind = "presenceJoin"
    /\ t.pc = "reply"
    /\ IF t.err
       THEN tasks' = tasks (-) SetToBag({t})
       ELSE tasks' = (tasks (-) SetToBag({t})) (+) SetToBag({[t EXCEPT !.pc = "clients"]})
    /\ UNCHANGED <<userId, rooms, db, log, thrown, emitted, broadcasts, hooks,
                   joined, granted, options, probe, last, pending, faults, ops>>

\* PresenceChannel.join, reconciliation: drop the entries that are not live
\* or carry the member's userId, append the member, persist list and length.
presenceJoinGotClients(t) ==
    /\ t.kind = "presenceJoin"
    /\ t.pc = "clients"
    /\ LET member == Member(t.userId, t.socket)
       IN dbSet(t.channel,
                Append(removeInactive(rooms[t.channel], t.members, member), member))
    /\ tasks' = tasks (-) SetToBag({t})
    /\ UNCHANGED <<userId, rooms, log, thrown, emitted, broadcasts, hooks,
                   joined, granted, options, probe, last, faults, ops>>

\* PresenceChannel.leave after its read: remove the leaving connection's
\* entry, persist list and length; a failed read rejects the operation.
presenceLeaveGotMembers(t) ==
    /\ t.kind = "presenceLeave"
    /\ t.pc = "reply"
    /\ IF t.err
       THEN dbUntouched
       ELSE dbSet(t.channel, withoutSocket(t.members, t.socket))
    /\ tasks' = tasks (-) SetToBag({t})
    /\ UNCHANGED <<userId, rooms, log, thrown, emitted, broadcasts, hooks,
                   joined, granted, options, probe, last, faults, ops>>

\* --------------------------------------------------------- client events
\* A membership test that accepts every connection that asked to join.
isInChannelRequested(s, channel) == <<s, channel>> \in joined

\* isInChannel(socket, channel): !!socket.rooms[channel]
isInChannel(s, channel) == s \in rooms[channel]

\* clientEvent(socket, data): decode; reading a property of null throws;
\* an event with a name and a channel is rebroadcast to the room when the
\* name is a client event, the channel private-style and the sender in it.
clientEvent(s, raw) ==
    /\ Request
    /\ LET data == decode(raw)
       IN IF data.type = "null"
          THEN /\ thrown' = Append(thrown, "TypeError")
               /\ UNCHANGED broadcasts
          ELSE /\ IF /\ data.event # ""
                     /\ data.channel # ""
                     /\ isClientEvent(data.event)
                     /\ isPrivate(data.channel)
                     /\ isInChannel(s, data.channel)
                  THEN broadcasts' = Append(broadcasts,
                            [from |-> s, channel |-> data.channel, event |-> data.event])
                  ELSE UNCHANGED broadcasts
               /\ UNCHANGED thrown
    /\ UNCHANGED <<userId, rooms, db, tasks, log, emitted, hooks, joined,
                   granted, options, probe, last, pending, faults>>

\* ------------------------------------------------------- specifications
Next ==
    \/ \E s \in Sockets, c \in PublicChannels : join(s, c)
    \/ \E s \in Sockets, c \in PublicChannels : leave(s, c)
    \/ \E t \in Pending : DbReply(t)
    \/ \E t \in Pending : joinGotMembers(t)
    \/ \E t \in Pending : joinGotClients(t)
    \/ \E t \in Pending : leaveGotMembers(t)

\* Public channels, callbacks interleaved in any order.
Spec == Init /\ [][Next]_vars


\* Public channels, every request handled only when no task is pending: each
\* operation runs to completion before the next starts.
Idle == tasks = EmptyBag

NextSeq ==
    \/ Idle /\ \E s \in Sockets, c \in PublicChannels : join(s, c)
    \/ Idle /\ \E s \in Sockets, c \in PublicChannels : leave(s, c)
    \/ \E t \in Pending : DbReply(t)
    \/ \E t \in Pending : joinGotMembers(t)
    \/ \E t \in Pending : joinGotClients(t)
    \/ \E t \in Pending : leaveGotMembers(t)

SeqSpec == Init /\ [][NextSeq]_vars

\* Public channels, and every answer arrives: the store, the registry and
\* the event loop eventually run the callback of a pending task.
Callbacks ==
    \E t \in Pending :
        DbReply(t) \/ joinGotMembers(t) \/ joinGotClients(t) \/ leaveGotMembers(t)

LiveSpec == Init /\ [][Next]_vars /\ WF_vars(Callbacks)

\* The state after connection A joined user.7 and connection B joined user.9
\* and both joins completed (a state Spec reaches, see IdentReached); the
\* request count starts again.
InitIdent ==
    /\ userId = [s \in Sockets |-> IF s = "A" THEN "7" ELSE "9"]
    /\ rooms = [c \in Channels |->
                  IF c = "user.7" THEN {"A"} ELSE IF c = "user.9" THEN {"B"} ELSE {}]
    /\ db = [k \in Keys |->
               IF k = membersKey("user.7") THEN Some(<<Member("7", "A")>>)
               ELSE IF k = membersKey("user.9") THEN Some(<<Member("9", "B")>>)
               ELSE IF k \in {countKey("user.7"), countKey("user.9")} THEN Some(1)
               ELSE Null]
    /\ tasks = EmptyBag
    /\ log = <<>>
    /\ thrown = <<>>
    /\ emitted = <<>>
    /\ broadcasts = <<>>
    /\ hooks = <<>>
    /\ joined = {<<"A", "user.7">>, <<"B", "user.9">>}
    /\ granted = {}
    /\ options = [hookEndpoint |-> FALSE, devMode |-> FALSE]
    /\ probe = NoProbe
    /\ last = [p \in Pairs |-> IF p \in {<<"A", "user.7">>, <<"B", "user.9">>}
                                THEN "join" ELSE "none"]
    /\ pending = [explicit |-> FALSE, sets |-> <<>>]
    /\ faults = 0
    /\ ops = 0

IdentSpec == InitIdent /\ [][Next]_vars

\* Public channels with a webhook endpoint configured.
InitHook == InitWith([hookEndpoint |-> TRUE, devMode |-> FALSE])

HookChannels == {"user.7"}

NextHook ==
    \/ \E s \in Sockets, c \in HookChannels : join(s, c)
    \/ \E s \in Sockets, c \in HookChannels : leave(s, c)
    \/ \E t \in Pending : DbReply(t)
    \/ \E t \in Pending : joinGotMembers(t)
    \/ \E t \in Pending : joinGotClients(t)
    \/ \E t \in Pending : leaveGotMembers(t)
    \/ \E t \in Pending, outcome \in HookOutcomes : hookDone(t, outcome)

HookSpec == InitHook /\ [][NextHook]_vars

\* Private and presence channels and client events.
InitPrivate == \E dev \in BOOLEAN : InitWith([hookEndpoint |-> FALSE, devMode |-> dev])

NextPrivate ==
    \/ \E s \in Sockets, c \in PrivateChannels : join(s, c)
    \/ \E s \in Sockets, c \in PrivateChannels : leave(s, c)
    \/ \E s \in Sockets, raw \in Payloads : clientEvent(s, raw)
    \/ \E t \in Pending, cd \in ChannelData : joinPrivateGranted(t, cd)
    \/ \E t \in Pending, error \in Denials : joinPrivateDenied(t, error)
    \/ \E t \in Pending : DbReply(t)
    \/ \E t \in Pending : presenceJoinGotMembers(t)
    \/ \E t \in Pending : presenceJoinGotClients(t)
    \/ \E t \in Pending : presenceLeaveGotMembers(t)
    \/ \E t \in Pending : leaveGotMembers(t)

PrivateSpec == InitPrivate /\ [][NextPrivate]_vars

\* Public channels with the store's pipeline explicit: a set command is
\* pending from its issue until the store applies it.
InitStore ==
    /\ InitBase([hookEndpoint |-> FALSE, devMode |-> FALSE])
    /\ probe = NoProbe
    /\ pending = [explicit |-> TRUE, sets |-> <<>>]

StoreChannels == {"user.7", "user.9"}

\* A store that applies the pending commands in any order.
StorePickAny(q) == DOMAIN q

\* The pending command the store applies next: the oldest, commands being
\* applied in the order they were issued.
StorePick(q) == {1}

\* The store applies a pending set command.
StoreApply ==
    /\ pending.explicit
    /\ pending.sets # <<>>
    /\ \E i \in StorePick(pending.sets) :
           LET q == pending.sets
           IN /\ db' = [db EXCEPT ![q[i].key] = Some(q[i].value)]
              /\ pending' = [pending EXCEPT !.sets =
                                 SubSeq(q, 1, i - 1) \o SubSeq(q, i + 1, Len(q))]
    /\ UNCHANGED <<userId, rooms, tasks, log, thrown, emitted, broadcasts, hooks,
                   joined, granted, options, probe, last, faults, ops>>

NextStore ==
    \/ \E s \in Sockets, c \in StoreChannels : join(s, c)
    \/ \E s \in Sockets, c \in StoreChannels : leave(s, c)
    \/ \E t \in Pending : DbReply(t)
    \/ \E t \in Pending : joinGotMembers(t)
    \/ \E t \in Pending : joinGotClients(t)
    \/ \E t \in Pending : leaveGotMembers(t)
    \/ StoreApply

StoreSpec == InitStore /\ [][NextStore]_vars

\* The classifiers alone: a channel name put together from fragments is
\* handed to isPrivate and isPresence.
Fragments == {"private-", "presence-", "my-", "x", "chat"}

RECURSIVE NamesOf(_)
NamesOf(k) ==
    IF k = 0 THEN {""}
    ELSE NamesOf(k - 1) \cup {f \o r : f \in Fragments, r \in NamesOf(k - 1)}

ClassifyNames == NamesOf(MaxFragments) \ {""}

InitClassify ==
    /\ InitBase([hookEndpoint |-> FALSE, devMode |-> FALSE])
    /\ probe \in {[NoProbe EXCEPT !.channel = n] : n \in ClassifyNames}
    /\ pending = [explicit |-> FALSE, sets |-> <<>>]

classify ==
    /\ ~probe.done
    /\ probe' = [probe EXCEPT !.private = isPrivate(probe.channel),
                              !.presence = isPresence(probe.channel),
                              !.done = TRUE]
    /\ UNCHANGED <<userId, rooms, db, tasks, log, thrown, emitted, broadcasts,
                   hooks, joined, granted, options, last, pending, faults, ops>>

NextClassify == classify

ClassifySpec == InitClassify /\ [][NextClassify]_vars

\* InitIdent is a state of Spec: TLC reaches it.
IdentReached ==
    /\ Idle
    /\ userId = [s \in Sockets |-> IF s = "A" THEN "7" ELSE "9"]
    /\ rooms["user.7"] = {"A"} /\ rooms["user.9"] = {"B"} /\ rooms["chat"] = {}
    /\ db[membersKey("user.7")] = Some(<<Member("7", "A")>>)
    /\ db[membersKey("user.9")] = Some(<<Member("9", "B")>>)
    /\ db[countKey("user.7")] = Some(1) /\ db[countKey("user.9")] = Some(1)
    /\ db[membersKey("chat")] = Null /\ db[countKey("chat")] = Null
    /\ joined = {<<"A", "user.7">>, <<"B", "user.9">>}

\* --------------------------------------------------------------- claims
\* The persisted member list of a channel.
Entries(c) == OrEmpty(db[membersKey(c)])

\* The positions of the list of channel c that hold an entry of connection s.
EntriesOf(c, s) == {i \in DOMAIN Entries(c) : Entries(c)[i].socketId = s}

\* A channel whose name sets no userId: its joiners keep the userId they have.
KeepsUserId(c) == onJoin(Undefined, c) = Undefined

\* C1: no lost update.  When two connections with different userIds have
\* each requested a join of the same channel, these two joins are the only
\* requests, and both have finished without a fault, the persisted list
\* holds an entry for each of them and the persisted count is 2.
C1_NoLostUpdate ==
    \A c \in PublicChannels : \A a, b \in Sockets :
        ( /\ a # b
          /\ KeepsUserId(c)
          /\ ops = 2 /\ Idle /\ faults = 0
          /\ <<a, c>> \in joined /\ <<b, c>> \in joined
          /\ userId[a] # Undefined /\ userId[b] # Undefined
          /\ userId[a] # userId[b] )
        => /\ EntriesOf(c, a) # {}
           /\ EntriesOf(c, b) # {}
           /\ db[countKey(c)] = Some(2)

\* C3: in every reachable state the persisted member list of every channel
\* holds at most one entry per socketId.
C3_OneEntryPerSocket ==
    \A c \in Channels, s \in Sockets : Cardinality(EntriesOf(c, s)) <= 1

C8_JoinReconciles ==
    [][\A t \in Pending :
          (joinGotClients(t) /\ faults' = faults) =>
              LET c == t.channel
                  member == Member(userId[t.socket], t.socket)
                  kept == SelectSeq(Entries(c),
                              LAMBDA m : /\ m.socketId \in rooms[c]
                                         /\ m.userId # member.userId)
                  result == OrEmpty(db'[membersKey(c)])
              IN /\ db'[membersKey(c)] = Some(Append(kept, member))
                 /\ db'[countKey(c)] = Some(Len(kept) + 1)
                 /\ {i \in DOMAIN result : result[i].userId = member.userId}
                        = {Len(result)}
                 /\ result[Len(result)].socketId = t.socket]_vars

\* C8 witness: both connections are in the room of user.7, connection B
\* joined last with the userId connection A was listed under, and the list
\* is the single entry of B.
C8_Witness ==
    /\ Idle /\ faults = 0
    /\ rooms["user.7"] = {"A", "B"}
    /\ db[membersKey("user.7")] = Some(<<Member("7", "B")>>)
    /\ db[countKey("user.7")] = Some(1)

\* C10: a failing store read does not prevent the room change.  A join of a
\* public channel registers the connection and a leave unregisters it when
\* the request is handled, before the read is answered; when the read of a
\* join or of a leave fails, the failure is logged, the rooms and the store
\* stay as they are, nothing is thrown and the task ends without a write.
C10_ReadFailureBestEffort ==
    [][/\ \A s \in Sockets, c \in PublicChannels :
              /\ join(s, c) => s \in rooms'[c]
              /\ leave(s, c) => s \notin rooms'[c]
       /\ \A t \in Pending :
              (t.err /\ (joinGotMembers(t) \/ leaveGotMembers(t))) =>
                  /\ log' = Append(log, LogEntry(t.kind, t.socket, t.channel, "store"))
                  /\ UNCHANGED <<rooms, db, thrown>>
                  /\ tasks' = tasks (-) SetToBag({t})]_vars

\* C10 witness: the read of a join failed and was logged, the connection is
\* in the room and nothing was written or thrown.
C10_Witness ==
    /\ Idle
    /\ Len(log) = 1
    /\ log[1].op = "join"
    /\ log[1].socket \in rooms[log[1].channel]
    /\ db[membersKey(log[1].channel)] = Null
    /\ thrown = <<>>

\* C4: a connection is in the room of a private-style channel only after the
\* authenticator granted a join request of that connection for that channel.
C4_RoomOnlyAfterGrant ==
    /\ \A c \in Channels : isPrivate(c) =>
           \A s \in rooms[c] : <<s, c>> \in granted
    /\ granted \subseteq joined

\* C4 witness: a connection is registered in the room of a private channel.
C4_Witness ==
    \E c \in PrivateChannels, s \in Sockets :
        isPrivate(c) /\ s \in rooms[c] /\ <<s, c>> \in granted

\* C5: the callback of a denial registers the connection in no room, writes
\* nothing to the store and starts no store operation.
C5_DenialChangesNothing ==
    [][\A t \in Pending, error \in Denials :
          joinPrivateDenied(t, error) =>
              /\ UNCHANGED <<rooms, db>>
              /\ tasks' = tasks (-) SetToBag({t})]_vars

\* C5 witness: every join was denied, and all the work is done: no
\* connection is in a room and the store holds nothing.
C5_Witness ==
    /\ Idle
    /\ Len(emitted) = 2
    /\ granted = {}
    /\ \A c \in Channels : rooms[c] = {}
    /\ \A k \in Keys : db[k] = Null

AcceptedEvent(s, raw) ==
    LET data == raw.value
    IN
    /\ raw.form \in {"json", "object"}
    /\ data.type = "object"
    /\ data.event # "" /\ data.channel # ""
    /\ \E p \in clientEvents : RegexTest(p, data.event)
    /\ \E p \in privateChannels : RegexTest(p, data.channel)
    /\ s \in rooms[data.channel]

C9_LeaveNeverJoinedNoOp ==
    [][/\ \A s \in Sockets, c \in Channels :
              (leave(s, c) /\ <<s, c>> \notin joined) =>
                  UNCHANGED <<rooms, db, hooks, thrown>>
       /\ \A t \in Pending :
              (leaveGotMembers(t) /\ <<t.socket, t.channel>> \notin joined) =>
                  UNCHANGED <<rooms, db, hooks, thrown>>]_vars

\* C11: the outcome of a webhook call, whichever it is and whenever it
\* arrives, changes neither the rooms nor the store, raises nothing, emits
\* nothing and ends the call: nothing is posted again.  The leave that
\* dispatched the call has unregistered the connection when it returns,
\* while the call is still waiting for its answer.
C11_HookOutcomeFrame ==
    [][/\ \A t \in Pending, outcome \in HookOutcomes :
              hookDone(t, outcome) =>
                  /\ UNCHANGED <<rooms, db, pending, hooks, thrown, emitted>>
                  /\ tasks' = tasks (-) SetToBag({t})
       /\ \A s \in Sockets, c \in Channels :
              leave(s, c) =>
                  /\ s \notin rooms'[c]
                  /\ hooks' = Append(hooks, Notification(s, c, "leave", userId[s]))
                  /\ hookTask(s, c) \in BagToSet(tasks')]_vars

\* C11 witness: a connection joined and left, the webhook call of the leave
\* failed and was logged, nothing is pending, one notification was
\* dispatched, the connection is out of the room and has no entry.
C11_Witness ==
    /\ Idle
    /\ Len(hooks) = 1
    /\ <<hooks[1].socket, hooks[1].channel>> \in joined
    /\ \E i \in DOMAIN log : log[i].op = "hook" /\ log[i].error = "transport"
    /\ hooks[1].socket \notin rooms[hooks[1].channel]
    /\ EntriesOf(hooks[1].channel, hooks[1].socket) = {}
    /\ db[membersKey(hooks[1].channel)] # Null

\* C12: a userId is set by the first join of a channel whose name holds a
\* user.<digits> segment, and once set it keeps its value: no step changes a
\* userId that is set.
C12_UserIdStable ==
    [][\A s \in Sockets :
          /\ userId[s] # Undefined => userId'[s] = userId[s]
          /\ \A c \in PublicChannels :
                 (join(s, c) /\ userId[s] = Undefined /\ ~KeepsUserId(c))
                     => userId'[s] = UserMatch(c)]_vars

\* s begins with p.
HasPrefix(s, p) == Len(s) >= Len(p) /\ SubSeq(s, 1, Len(p)) = p

\* C13: a name that begins with the presence prefix is classified presence
\* and private-style, and a name is classified private-style only if it
\* begins with the private prefix or with the presence prefix.
C13_Classification ==
    probe.done =>
        /\ HasPrefix(probe.channel, "presence-")
               => (probe.presence /\ probe.private)
        /\ probe.private
               => (HasPrefix(probe.channel, "private-")
                      \/ HasPrefix(probe.channel, "presence-"))

\* C14: Left is terminal.  When the last request handled for a connection
\* and a channel is a leave that came after a join of that pair, then once
\* no task is pending (and no call has failed) the connection is not in the
\* channel's room and has no entry in the persisted list.
C14_LeftIsTerminal ==
    \A s \in Sockets, c \in Channels :
        ( /\ <<s, c>> \in joined
          /\ last[<<s, c>>] = "leave"
          /\ Idle /\ faults = 0 )
        => /\ s \notin rooms[c]
           /\ EntriesOf(c, s) = {}

\* The notifications dispatched for connection s, channel c and an event.
Notified(s, c, event) ==
    {i \in DOMAIN hooks : /\ hooks[i].socket = s
                          /\ hooks[i].channel = c
                          /\ hooks[i].event = event}

\* C15: with a webhook endpoint configured, a join notification was
\* dispatched for every connection that a join registered in a room, and a
\* leave notification for every leave handled.
C15_JoinDispatchesHook ==
    options.hookEndpoint =>
        \A s \in Sockets, c \in Channels :
            /\ (<<s, c>> \in joined /\ s \in rooms[c]) => Notified(s, c, "join") # {}
            /\ last[<<s, c>>] = "leave" => Notified(s, c, "leave") # {}

\* C16: a join of a public channel that leaves the connection without a
\* userId registers the connection in the room and touches no store: it
\* changes no key, issues no command and starts no task that would.
C16_JoinWithoutUserId ==
    [][\A s \in Sockets, c \in PublicChannels :
          (join(s, c) /\ userId'[s] = Undefined) =>
              /\ s \in rooms'[c]
              /\ UNCHANGED <<db, pending, tasks>>]_vars

\* C16 witness: a connection without userId joined chat and is in its room;
\* nothing is pending and the store holds nothing.
C16_Witness ==
    /\ Idle
    /\ \E s \in Sockets :
           /\ <<s, "chat">> \in joined
           /\ s \in rooms["chat"]
           /\ userId[s] = Undefined
    /\ \A k \in Keys : db[k] = Null

\* The step ends task t: t leaves the pending tasks and nothing replaces it.
Ends(t) == tasks' = tasks (-) SetToBag({t})

\* The step issues the membership write of channel c.
Writes(c) ==
    /\ db'[membersKey(c)] # Null
    /\ db' = [db EXCEPT ![membersKey(c)] = db'[membersKey(c)],
                        ![countKey(c)] = Some(Len(OrEmpty(db'[membersKey(c)])))]

\* C17: every join or leave task runs to completion.  When every call is
\* answered, pending tasks do not stay pending forever, and the step that
\* ends a task either issues the task's membership write or reports a
\* failure to the log; it does not end in an exception.
C17_TasksRunToCompletion ==
    /\ (~Idle) ~> Idle
    /\ [][\A t \in Pending :
              Ends(t) => /\ thrown' = thrown
                         /\ Writes(t.channel) \/ Len(log') = Len(log) + 1]_vars

\* C18: handling a client event raises nothing, whatever the payload: a
\* payload that does not decode to an object with an event and a channel
\* (a text that is no JSON, a JSON null, an object without channel) is
\* dropped without a broadcast and without an exception.
C18_ClientEventNeverRaises ==
    [][\A s \in Sockets, raw \in Payloads :
          clientEvent(s, raw) =>
              /\ thrown' = thrown
              /\ ~AcceptedEvent(s, raw) => broadcasts' = broadcasts]_vars

\* C19: every member list the store holds for a channel, each written by a
\* join or a leave, has at most one entry per userId, whatever the
\* interleaving.
C19_OneEntryPerUser ==
    \A c \in Channels :
        \A i, j \in DOMAIN Entries(c) :
            Entries(c)[i].userId = Entries(c)[j].userId => i = j

\* C19 witness: two connections of the same user are both in the room of a
\* channel, all joins have finished, and the list holds one of them.
C19_Witness ==
    /\ Idle
    /\ userId["A"] # Undefined
    /\ userId["A"] = userId["B"]
    /\ \E c \in PublicChannels :
           /\ rooms[c] = {"A", "B"}
           /\ Len(Entries(c)) = 1
           /\ Entries(c)[1].userId = userId["A"]

\* C20: with writes applied in the order they are issued, in every state
\* where no store write is pending the stored count of every channel is the
\* length of the channel's stored list (and there is no count without list).
C20_CountIsLength ==
    pending.sets = <<>> =>
        \A c \in Channels :
            IF db[membersKey(c)] = Null
            THEN db[countKey(c)] = Null
            ELSE db[countKey(c)] = Some(Len(Entries(c)))

\* C20 witness: the writes of a join and of a leave of the same channel went
\* through the pipeline and have been applied: the connection that stayed is
\* listed, the count is 1, nothing is pending.
C20_Witness ==
    /\ pending.explicit
    /\ pending.sets = <<>>
    /\ Idle
    /\ \E c \in StoreChannels, s, r \in Sockets :
           /\ last[<<s, c>>] = "join" /\ last[<<r, c>>] = "leave"
           /\ Entries(c) = <<Member(userId[s], s)>>
           /\ db[countKey(c)] = Some(1)

====
